---- MODULE Spec2Model ----
(***************************************************************************)
(* A model of the in-process publish/subscribe broker of                   *)
(* src/message_broker/main.py: the MessageBroker singleton constructor,    *)
(* publish, subscribe, unsubscribe, stop, and the dispatch worker thread   *)
(* _process_messages, at the granularity at which CPython threads          *)
(* interleave (one shared-state operation per step).                       *)
(*                                                                         *)
(* Python strings are sequences of one-character strings.  A Python value  *)
(* that only matters through its type and its truth value is a record      *)
(* [kind, n]: n is the number itself for an int, 0/1 for a bool and the    *)
(* length for a string, list or dict; None is [kind |-> "none", n |-> 0].  *)
(* A dict is the sequence of its slots in insertion order, as CPython      *)
(* stores it: deleting a key leaves a dead slot behind, inserting a new    *)
(* key appends a slot, assigning to a present key overwrites its slot.     *)
(***************************************************************************)
EXTENDS Integers, Sequences, FiniteSets, TLC

\* ------------------------------------------------------------- bounds
\* Longest pattern of the matching specification (topics are one longer).
MaxLen == 3
\* Messages accepted by publish in one behaviour.
MaxPublish == 2
\* subscribe and unsubscribe calls in one behaviour.
MaxOps == 3
\* Messages accepted, and subscribe and unsubscribe calls, in a behaviour that
\* also constructs and stops brokers or publishes invalid messages.
FewPublish == 1
FewOps == 1

\* ------------------------------------------------------- Python values
None == [kind |-> "none", n |-> 0]
PyInt(i) == [kind |-> "int", n |-> i]
PyBool(v) == [kind |-> "bool", n |-> IF v THEN 1 ELSE 0]
PyStrLen(k) == [kind |-> "str", n |-> k]
PyList(k) == [kind |-> "list", n |-> k]
PyDict(k) == [kind |-> "dict", n |-> k]

\* bool(v): None, 0, False and empty strings and containers are falsy.
Truthy(v) == v.kind # "none" /\ v.n # 0

\* A topic value: a string (its characters in s), or a value of another type.
TopicStr(s) == [kind |-> "str", n |-> Len(s), s |-> s]
TopicOther(v) == [kind |-> v.kind, n |-> v.n, s |-> <<>>]

\* ------------------------------------------------------------ matching
\* str.replace('*', '.+?') on a pattern (main.py line 144).
RECURSIVE ReplaceStar(_)
ReplaceStar(p) ==
  IF p = <<>> THEN <<>>
  ELSE IF Head(p) = "*" THEN <<".", "+", "?">> \o ReplaceStar(Tail(p))
  ELSE <<Head(p)>> \o ReplaceStar(Tail(p))

\* One regular-expression atom against one character: '.' matches any
\* character (no topic here holds a newline), a letter matches itself.
AtomMatches(a, c) == a = "." \/ a = c

\* re.match(regex, topic) is not None (main.py line 145), for the regular
\* expressions ReplaceStar produces from patterns over letters, '.' and '*':
\* a sequence of atoms, each optionally followed by the lazy quantifier "+?".
\* re.match anchors at the start of the topic only: an exhausted regex
\* matches whatever is left of the topic.
RECURSIVE ReMatch(_, _)
ReMatch(re, t) ==
  IF re = <<>> THEN TRUE
  ELSE IF Len(re) >= 3 /\ re[2] = "+" /\ re[3] = "?"
    THEN \E k \in 1..Len(t) :
           /\ \A i \in 1..k : AtomMatches(re[1], t[i])
           /\ ReMatch(SubSeq(re, 4, Len(re)), SubSeq(t, k + 1, Len(t)))
  ELSE /\ t # <<>>
       /\ AtomMatches(re[1], t[1])
       /\ ReMatch(Tail(re), Tail(t))

\* The test of main.py lines 144-145.
Matches(topic_pattern, msg_topic) == ReMatch(ReplaceStar(topic_pattern), msg_topic)

\* ---------------------------------------------------------- the domain
\* Broker objects a behaviour can construct.
MaxBrokers == 2
Brokers == 1..MaxBrokers

Patterns == {<<"a", ".", "*">>}
SubscriberIds == {"s1", "s2"}
\* The callbacks callers subscribe: f returns normally; bad raises an
\* exception.
Callbacks == {"f", "bad"}
Raises(cb) == cb = "bad"
\* Callbacks of other kinds: hang never returns; pub, sub and unsub call
\* publish, subscribe and unsubscribe on the broker that invokes them, and
\* then return.
Hangs(cb) == cb = "hang"
Reentrant(cb) == cb \in {"pub", "sub", "unsub"}

\* The messages callers publish: well-formed ones, with and without an
\* origin, and ones with a missing, empty or non-string topic or with data
\* that is missing or present but falsy.
GoodTopics == {TopicStr(<<"a", ".", "b">>), TopicStr(<<"x", ".", "y">>)}
GoodData == {PyDict(1)}
Origins == {None, PyStrLen(6)}
Messages ==
  [topic : GoodTopics, data : GoodData, origin : Origins]
  \cup [topic : {TopicOther(None), TopicStr(<<>>), TopicOther(PyInt(42)), TopicOther(PyInt(0))},
        data : GoodData, origin : {None}]
  \cup [topic : {TopicStr(<<"a", ".", "b">>)},
        data : {None, PyInt(0), PyBool(FALSE), PyStrLen(0), PyList(0)},
        origin : {None}]
\* The well-formed messages of local publishers, which carry no origin.
LocalMessages == [topic : GoodTopics, data : GoodData, origin : {None}]

\* --------------------------------------------------------------- state
VARIABLES
  instance,      \* MessageBroker._instance: 0 for None, else a broker
  ctor,          \* singleton constructor calls that saw _instance is None and have not created yet
  life,          \* per broker: "none" (not constructed) or "live" (constructed and initialised)
  singleton,     \* per broker: constructed in singleton mode
  running,       \* per broker: self._running
  networking,    \* per broker: self._networking_enabled
  topics,        \* per broker: self._topics, the slots of the outer dict
  lock,          \* per broker: self.lock and the subscribe call holding it
  queue_in,      \* per broker: self._message_queue_in
  queue_out,     \* per broker: self._message_queue_out
  wake_event,    \* per broker: self._wake_event
  setters,       \* per broker: publish calls between their put and their set
  worker,        \* per broker: the thread self.worker, its position and locals
  stopPc,        \* per broker: the position of the stop() call in progress
  stopped,       \* per broker: a stop() call has returned
  clearedAt,     \* per broker: the length of hist when stop() last cleared the registry, or -1
  calls,         \* every callback invocation so far, in order
  hist,          \* every completed subscribe and unsubscribe, in order
  published,     \* every message publish accepted, with its broker, in order
  nextId,        \* the number the next accepted message gets
  discarded,      \* publish has logged and dropped an invalid message (line 83)
  limits,        \* how many publish and subscribe/unsubscribe calls the callers make
  got            \* what the last MessageBroker() call in singleton mode returned

vars == <<instance, ctor, life, singleton, running, networking, topics, lock,
          queue_in, queue_out, wake_event, setters, worker, stopPc, stopped,
          clearedAt, calls, hist, published, nextId, discarded, limits, got>>

\* The fields of one broker object that only its own methods touch.
fields == <<running, networking, topics, lock, queue_in, queue_out, wake_event,
            setters, worker>>
ghosts == <<clearedAt, calls, hist, published, nextId, discarded, limits, got>>

NoSub == [held |-> FALSE, pat |-> <<>>, sid |-> "", cb |-> ""]
\* What MessageBroker() returned: the object, and its _running when returned.
Returned(b) == [b |-> b, running |-> running[b]]
NoBroker == [b |-> 0, running |-> TRUE]
NoMsg == [id |-> 0, topic |-> TopicStr(<<>>), data |-> None, origin |-> None]
\* The worker thread: pc is its position in _process_messages; msg the
\* message being dispatched ("in" and "back": inside a callback, before and
\* after what the callback does to the broker); pi and pused the iterator over self._topics
\* (next slot, size when created); pat the slot of the matching pattern;
\* ci, cused and clen the iterator over that pattern's callbacks (next slot,
\* size when created, entries still expected); kept that pattern's slot
\* once self._topics.clear() has removed it from the registry, where the
\* iterator still holds its dict.
Worker(pc) == [pc |-> pc, msg |-> NoMsg, pi |-> 0, pused |-> 0,
               pat |-> 0, ci |-> 0, cused |-> 0, clen |-> 0, kept |-> <<>>]

Init ==
  /\ instance = 0
  /\ ctor = 0
  /\ life = [b \in Brokers |-> "none"]
  /\ singleton = [b \in Brokers |-> FALSE]
  /\ running = [b \in Brokers |-> FALSE]
  /\ networking = [b \in Brokers |-> FALSE]
  /\ topics = [b \in Brokers |-> <<>>]
  /\ lock = [b \in Brokers |-> NoSub]
  /\ queue_in = [b \in Brokers |-> <<>>]
  /\ queue_out = [b \in Brokers |-> <<>>]
  /\ wake_event = [b \in Brokers |-> FALSE]
  /\ setters = [b \in Brokers |-> 0]
  /\ worker = [b \in Brokers |-> Worker("none")]
  /\ stopPc = [b \in Brokers |-> "idle"]
  /\ stopped = [b \in Brokers |-> FALSE]
  /\ clearedAt = [b \in Brokers |-> -1]
  /\ calls = <<>>
  /\ hist = <<>>
  /\ published = <<>>
  /\ nextId = 1
  /\ discarded = FALSE
  /\ limits = [pub |-> FewPublish, ops |-> FewOps]
  /\ got = NoBroker

\* ---------------------------------------------------------- constructor
\* _initialize (lines 43-77) on the fresh object b, with the 'network.enabled'
\* option of the config it is given: the flag set, an empty registry, empty
\* queues, and the worker thread started.
Initialize(b, net) ==
  /\ life' = [life EXCEPT ![b] = "live"]
  /\ running' = [running EXCEPT ![b] = TRUE]
  /\ lock' = [lock EXCEPT ![b] = NoSub]
  /\ wake_event' = [wake_event EXCEPT ![b] = FALSE]
  /\ networking' = [networking EXCEPT ![b] = net]
  /\ topics' = [topics EXCEPT ![b] = <<>>]
  /\ queue_in' = [queue_in EXCEPT ![b] = <<>>]
  /\ queue_out' = [queue_out EXCEPT ![b] = <<>>]
  /\ worker' = [worker EXCEPT ![b] = Worker("run")]
  /\ UNCHANGED setters

\* MessageBroker() in singleton mode, the test of line 33: an existing
\* instance is returned as it is (line 36), whatever its _running is;
\* otherwise the caller goes on to construct one.
NewCheck ==
  /\ IF instance # 0
       THEN /\ got' = Returned(instance)
            /\ UNCHANGED ctor
       ELSE /\ ctor < Cardinality({b \in Brokers : life[b] = "none"})
            /\ ctor' = ctor + 1
            /\ UNCHANGED got
  /\ UNCHANGED <<instance, life, singleton, fields, stopPc, stopped,
                 clearedAt, calls, hist, published, nextId, discarded, limits>>

\* Lines 34-36 of a caller that saw None: the new object is stored in
\* _instance, initialised and returned.
NewCreate(b, net) ==
  /\ ctor > 0
  /\ life[b] = "none"
  /\ \A c \in Brokers : c < b => life[c] # "none"
  /\ ctor' = ctor - 1
  /\ instance' = b
  /\ singleton' = [singleton EXCEPT ![b] = TRUE]
  /\ Initialize(b, net)
  /\ got' = [b |-> b, running |-> TRUE]
  /\ UNCHANGED <<stopPc, stopped, clearedAt, calls, hist, published, nextId, discarded, limits>>

\* MessageBroker(singleton=False), lines 39-41.
NewPlain(b, net) ==
  /\ life[b] = "none"
  /\ \A c \in Brokers : c < b => life[c] # "none"
  /\ ctor < Cardinality({c \in Brokers : life[c] = "none"})
  /\ Initialize(b, net)
  /\ UNCHANGED <<instance, ctor, singleton, stopPc, stopped, ghosts>>

\* -------------------------------------------------------------- publish
\* A validation that lets a message with an empty topic through.
ValidEmptyTopic(message) == Truthy(message.data) /\ message.topic.kind = "str"

\* The test of line 82, negated: the message is kept.
Valid(message) ==
  ~(\/ ~Truthy(message.topic)
    \/ ~Truthy(message.data)
    \/ message.topic.kind # "str")

\* A relay that does not look at the origin.
RelayedAlways(message, net) == net

\* The tests of lines 91-92: the message goes on the outbound queue.
Relayed(message, net) == message.origin = None /\ net

\* publish, lines 82-93: an invalid message is logged and dropped; a valid
\* one is put on the inbound queue and, when it has no origin and networking
\* is enabled, on the outbound queue.
PublishPut(b, message) ==
  /\ life[b] = "live"
  /\ IF Valid(message)
       THEN /\ nextId <= limits.pub
            /\ LET m == [id |-> nextId, topic |-> message.topic,
                         data |-> message.data, origin |-> message.origin]
               IN /\ queue_in' = [queue_in EXCEPT ![b] = Append(@, m)]
                  /\ queue_out' = [queue_out EXCEPT ![b] =
                       IF Relayed(message, networking[b]) THEN Append(@, m) ELSE @]
            /\ setters' = [setters EXCEPT ![b] = @ + 1]
            /\ nextId' = nextId + 1
            /\ published' = Append(published, [b |-> b, msg |-> message])
            /\ UNCHANGED discarded
       ELSE /\ discarded' = TRUE
            /\ UNCHANGED <<queue_in, queue_out, setters, nextId, published>>
  /\ UNCHANGED <<instance, ctor, life, singleton, running, networking, topics, lock,
                 wake_event, worker, stopPc, stopped, clearedAt, calls, hist, limits, got>>

\* publish, line 96.
PublishSet(b) ==
  /\ setters[b] > 0
  /\ setters' = [setters EXCEPT ![b] = @ - 1]
  /\ wake_event' = [wake_event EXCEPT ![b] = TRUE]
  /\ UNCHANGED <<instance, ctor, life, singleton, running, networking, topics, lock,
                 queue_in, queue_out, worker, stopPc, stopped, ghosts>>

\* ---------------------------------------------------------------- dicts
\* self._topics is a sequence of slots [key |-> pattern, val |-> inner dict]
\* (the code never deletes a pattern); an inner dict is a sequence of slots
\* [key |-> subscriber_id, val |-> callback, live |-> BOOLEAN].
DeadSlot == [key |-> "", val |-> "", live |-> FALSE]
HasKey(d, k) == \E i \in 1..Len(d) : d[i].key = k
IndexOf(d, k) == CHOOSE i \in 1..Len(d) : d[i].key = k
HasLive(inner, k) == \E i \in 1..Len(inner) : inner[i].live /\ inner[i].key = k
LiveIndex(inner, k) == CHOOSE i \in 1..Len(inner) : inner[i].live /\ inner[i].key = k
\* len(inner): the number of live slots.
Used(inner) == Cardinality({i \in 1..Len(inner) : inner[i].live})
\* A registry that keeps the old callback beside the new one.
SetItemKeepingOld(inner, k, v) == Append(inner, [key |-> k, val |-> v, live |-> TRUE])

\* inner[k] = v: a present key keeps its slot, a new key gets a slot at the end.
SetItem(inner, k, v) ==
  IF HasLive(inner, k)
    THEN [inner EXCEPT ![LiveIndex(inner, k)].val = v]
    ELSE Append(inner, [key |-> k, val |-> v, live |-> TRUE])
\* del inner[k].
DelItem(inner, k) == [inner EXCEPT ![LiveIndex(inner, k)] = DeadSlot]
\* The first live slot of inner at or after slot i, or 0.
NextLive(inner, i) ==
  IF \E j \in i..Len(inner) : inner[j].live
    THEN CHOOSE j \in i..Len(inner) : inner[j].live /\ \A h \in i..(j - 1) : ~inner[h].live
    ELSE 0

\* ------------------------------------------- subscribe and unsubscribe
OpsDone == Len(hist) + Cardinality({b \in Brokers : lock[b].held})

\* subscribe, lines 108-110: the lock is taken and the pattern's dict is
\* created when the pattern is new.
SubscribeBegin(b, topic, callback, subscriber_id) ==
  /\ life[b] = "live"
  /\ ~lock[b].held
  /\ OpsDone < limits.ops
  /\ lock' = [lock EXCEPT ![b] = [held |-> TRUE, pat |-> topic, sid |-> subscriber_id, cb |-> callback]]
  /\ topics' = [topics EXCEPT ![b] =
       IF HasKey(@, topic) THEN @ ELSE Append(@, [key |-> topic, val |-> <<>>])]
  /\ UNCHANGED <<instance, ctor, life, singleton, running, networking, queue_in, queue_out,
                 wake_event, setters, worker, stopPc, stopped, ghosts>>

\* subscribe, line 111, and the release of the lock: the callback is stored
\* under the subscriber_id.  When stop() has cleared the registry since line
\* 110 the lookup of the pattern raises KeyError and nothing is stored.
SubscribeEnd(b) ==
  /\ lock[b].held
  /\ lock' = [lock EXCEPT ![b] = NoSub]
  /\ IF HasKey(topics[b], lock[b].pat)
       THEN /\ topics' = [topics EXCEPT ![b][IndexOf(topics[b], lock[b].pat)].val =
                            SetItem(@, lock[b].sid, lock[b].cb)]
            /\ hist' = Append(hist, [b |-> b, pat |-> lock[b].pat, sid |-> lock[b].sid,
                                     op |-> "sub", cb |-> lock[b].cb, at |-> nextId])
       ELSE UNCHANGED <<topics, hist>>
  /\ UNCHANGED <<instance, ctor, life, singleton, running, networking, queue_in, queue_out,
                 wake_event, setters, worker, stopPc, stopped, clearedAt, calls, published, nextId, discarded, limits, got>>

\* unsubscribe, lines 123-125, under the lock: a subscriber that is not
\* registered under the pattern is left alone.
Unsubscribe(b, topic, subscriber_id) ==
  /\ life[b] = "live"
  /\ ~lock[b].held
  /\ OpsDone < limits.ops
  /\ IF HasKey(topics[b], topic) /\ HasLive(topics[b][IndexOf(topics[b], topic)].val, subscriber_id)
       THEN /\ topics' = [topics EXCEPT ![b][IndexOf(topics[b], topic)].val = DelItem(@, subscriber_id)]
            /\ hist' = Append(hist, [b |-> b, pat |-> topic, sid |-> subscriber_id,
                                     op |-> "unsub", cb |-> "", at |-> nextId])
       ELSE UNCHANGED <<topics, hist>>
  /\ UNCHANGED <<instance, ctor, life, singleton, running, networking, lock, queue_in, queue_out,
                 wake_event, setters, worker, stopPc, stopped, clearedAt, calls, published, nextId, discarded, limits, got>>

\* ---------------------------------------------------- the dispatch worker
WorkerUnchanged ==
  UNCHANGED <<instance, ctor, life, singleton, running, networking, topics, lock,
              setters, stopPc, stopped, clearedAt, hist, published, nextId, discarded, limits, got>>

\* A loop that does not look at the flag.
WorkerRunForever(b) ==
  /\ worker[b].pc = "run"
  /\ worker' = [worker EXCEPT ![b] = Worker("empty")]
  /\ UNCHANGED <<queue_in, queue_out, wake_event, calls>>
  /\ WorkerUnchanged

\* Line 134: while self._running.
WorkerRun(b) ==
  /\ worker[b].pc = "run"
  /\ worker' = [worker EXCEPT ![b] = Worker(IF running[b] THEN "empty" ELSE "exit")]
  /\ UNCHANGED <<queue_in, queue_out, wake_event, calls>>
  /\ WorkerUnchanged

\* Line 137: while not self._message_queue_in.empty().
WorkerEmpty(b) ==
  /\ worker[b].pc = "empty"
  /\ worker' = [worker EXCEPT ![b] = Worker(IF queue_in[b] # <<>> THEN "get" ELSE "clear")]
  /\ UNCHANGED <<queue_in, queue_out, wake_event, calls>>
  /\ WorkerUnchanged

\* A queue that hands out its newest message first.
DequeueNewest(q) == [msg |-> q[Len(q)], rest |-> SubSeq(q, 1, Len(q) - 1)]

\* get_nowait() on a queue.Queue: the oldest message, and what is left.
Dequeue(q) == [msg |-> Head(q), rest |-> Tail(q)]

\* Lines 139-143: the message is taken off the queue and the iteration over
\* self._topics starts.
WorkerGet(b) ==
  /\ worker[b].pc = "get"
  /\ queue_in[b] # <<>>
  /\ queue_in' = [queue_in EXCEPT ![b] = Dequeue(@).rest]
  /\ worker' = [worker EXCEPT ![b] = [Worker("pat") EXCEPT
       !.msg = Dequeue(queue_in[b]).msg, !.pi = 1, !.pused = Len(topics[b])]]
  /\ UNCHANGED <<queue_out, wake_event, calls>>
  /\ WorkerUnchanged

\* Lines 143-146, one step of "for topic_pattern in self._topics": a dict
\* whose size changed since the iteration started raises RuntimeError, which
\* nothing catches (line 150 catches queue.Empty only), so the thread ends;
\* past the last pattern the message is done (line 149); otherwise the
\* pattern is matched against the topic and, on a match, the iteration over
\* its callbacks starts.
WorkerPattern(b) ==
  /\ worker[b].pc = "pat"
  /\ LET w == worker[b] IN
     worker' = [worker EXCEPT ![b] =
       IF Len(topics[b]) # w.pused THEN Worker("crashed")
       ELSE IF w.pi > Len(topics[b]) THEN Worker("empty")
       ELSE IF Matches(topics[b][w.pi].key, w.msg.topic.s)
         THEN [w EXCEPT !.pc = "cb", !.pat = w.pi, !.pi = w.pi + 1, !.ci = 1,
                        !.cused = Used(topics[b][w.pi].val),
                        !.clen = Used(topics[b][w.pi].val)]
       ELSE [w EXCEPT !.pi = w.pi + 1]]
  /\ UNCHANGED <<queue_in, queue_out, wake_event, calls>>
  /\ WorkerUnchanged

\* What the callback is called with (line 147).
Argument(message) == message.data

\* Lines 146-147, one step of "for callback in ....values()": a dict whose
\* size changed, or that yields more entries than it had, raises
\* RuntimeError and the thread ends; past the last callback the next
\* pattern is tried; otherwise the callback is called with the data.
WorkerCallback(b) ==
  /\ worker[b].pc = "cb"
  /\ LET w == worker[b]
         slot == IF w.kept # <<>> THEN w.kept[1] ELSE topics[b][w.pat]
         inner == slot.val
         j == NextLive(inner, w.ci)
     IN IF Used(inner) # w.cused \/ (j # 0 /\ w.clen = 0)
          THEN /\ worker' = [worker EXCEPT ![b] = Worker("crashed")]
               /\ UNCHANGED calls
        ELSE IF j = 0
          THEN /\ worker' = [worker EXCEPT ![b] = [w EXCEPT !.pc = "pat", !.pat = 0, !.ci = 0,
                                                         !.cused = 0, !.clen = 0,
                                                         !.kept = <<>>]]
               /\ UNCHANGED calls
        ELSE /\ calls' = Append(calls, [b |-> b, pat |-> slot.key,
                                        sid |-> inner[j].key, cb |-> inner[j].val,
                                        id |-> w.msg.id, arg |-> Argument(w.msg),
                                        done |-> FALSE])
             /\ worker' = [worker EXCEPT ![b] =
                  [w EXCEPT !.pc = "in", !.ci = j + 1, !.clen = w.clen - 1]]
  /\ UNCHANGED <<queue_in, queue_out, wake_event>>
  /\ WorkerUnchanged

\* The invocation of a callback that the worker of b is in.
InCall(b) == CHOOSE i \in DOMAIN calls : calls[i].b = b /\ ~calls[i].done

\* A worker that goes on with the next callback while this one still runs.
WorkerDetach(b) ==
  /\ worker[b].pc \in {"in", "back"}
  /\ worker' = [worker EXCEPT ![b] = [@ EXCEPT !.pc = "cb"]]
  /\ UNCHANGED <<queue_in, queue_out, wake_event, calls>>
  /\ WorkerUnchanged

\* Line 147, the end of the call: the callback returns and the iteration
\* over the callbacks goes on, or it raises, which nothing catches, and the
\* thread ends.  A callback that never returns leaves the worker in the call.
WorkerReturn(b) ==
  /\ worker[b].pc \in {"in", "back"}
  /\ LET cb == calls[InCall(b)].cb
     IN /\ ~Hangs(cb)
        /\ Reentrant(cb) => worker[b].pc = "back"
        /\ calls' = [calls EXCEPT ![InCall(b)].done = TRUE]
        /\ worker' = [worker EXCEPT ![b] =
             IF Raises(cb) THEN Worker("crashed") ELSE [@ EXCEPT !.pc = "cb"]]
  /\ UNCHANGED <<queue_in, queue_out, wake_event>>
  /\ WorkerUnchanged

\* ------------------------------------------- callbacks that call the broker
\* What a callback that calls the broker leaves alone, and its way back to
\* the return of line 147.
CallbackUnchanged(b) ==
  /\ worker' = [worker EXCEPT ![b] = [@ EXCEPT !.pc = "back"]]
  /\ UNCHANGED <<instance, ctor, life, singleton, running, networking, lock, setters,
                 stopPc, stopped, clearedAt, calls, discarded, limits, got>>

\* The callback being invoked calls publish (lines 80-96) with the message it
\* was invoked for, unless the callers' budget of messages is used up.
CallbackPublish(b) ==
  /\ worker[b].pc = "in"
  /\ calls[InCall(b)].cb = "pub"
  /\ LET w == worker[b]
         message == [topic |-> w.msg.topic, data |-> w.msg.data, origin |-> w.msg.origin]
         m == [id |-> nextId, topic |-> message.topic, data |-> message.data,
               origin |-> message.origin]
     IN IF nextId <= limits.pub /\ Valid(message)
          THEN /\ queue_in' = [queue_in EXCEPT ![b] = Append(@, m)]
               /\ queue_out' = [queue_out EXCEPT ![b] =
                    IF Relayed(message, networking[b]) THEN Append(@, m) ELSE @]
               /\ wake_event' = [wake_event EXCEPT ![b] = TRUE]
               /\ nextId' = nextId + 1
               /\ published' = Append(published, [b |-> b, msg |-> message])
          ELSE UNCHANGED <<queue_in, queue_out, wake_event, nextId, published>>
  /\ UNCHANGED <<topics, hist>>
  /\ CallbackUnchanged(b)

\* The callback being invoked calls subscribe (lines 108-111) with the
\* callback f, unless the callers' budget of calls is used up; it takes the
\* lock, which the worker does not hold.
CallbackSubscribe(b, topic, subscriber_id) ==
  /\ worker[b].pc = "in"
  /\ calls[InCall(b)].cb = "sub"
  /\ ~lock[b].held
  /\ IF OpsDone < limits.ops
       THEN LET reg == IF HasKey(topics[b], topic) THEN topics[b]
                       ELSE Append(topics[b], [key |-> topic, val |-> <<>>])
            IN /\ topics' = [topics EXCEPT ![b] =
                     [reg EXCEPT ![IndexOf(reg, topic)].val = SetItem(@, subscriber_id, "f")]]
               /\ hist' = Append(hist, [b |-> b, pat |-> topic, sid |-> subscriber_id,
                                        op |-> "sub", cb |-> "f", at |-> nextId])
       ELSE UNCHANGED <<topics, hist>>
  /\ UNCHANGED <<queue_in, queue_out, wake_event, nextId, published>>
  /\ CallbackUnchanged(b)

\* The callback being invoked calls unsubscribe (lines 123-125) for its own
\* subscription, unless the callers' budget of calls is used up.
CallbackUnsubscribe(b) ==
  /\ worker[b].pc = "in"
  /\ calls[InCall(b)].cb = "unsub"
  /\ ~lock[b].held
  /\ LET topic == calls[InCall(b)].pat
         subscriber_id == calls[InCall(b)].sid
     IN IF /\ OpsDone < limits.ops
           /\ HasKey(topics[b], topic)
           /\ HasLive(topics[b][IndexOf(topics[b], topic)].val, subscriber_id)
          THEN /\ topics' = [topics EXCEPT ![b][IndexOf(topics[b], topic)].val =
                               DelItem(@, subscriber_id)]
               /\ hist' = Append(hist, [b |-> b, pat |-> topic, sid |-> subscriber_id,
                                        op |-> "unsub", cb |-> "", at |-> nextId])
          ELSE UNCHANGED <<topics, hist>>
  /\ UNCHANGED <<queue_in, queue_out, wake_event, nextId, published>>
  /\ CallbackUnchanged(b)

\* Line 155: self._wake_event.clear().
WorkerClear(b) ==
  /\ worker[b].pc = "clear"
  /\ wake_event' = [wake_event EXCEPT ![b] = FALSE]
  /\ worker' = [worker EXCEPT ![b] = Worker("wait")]
  /\ UNCHANGED <<queue_in, queue_out, calls>>
  /\ WorkerUnchanged

\* Line 156: self._wake_event.wait(timeout=300.0) returns when the event is
\* set or when the timeout has passed, which can be at any time.
WorkerWait(b) ==
  /\ worker[b].pc = "wait"
  /\ worker' = [worker EXCEPT ![b] = Worker("run")]
  /\ UNCHANGED <<queue_in, queue_out, wake_event, calls>>
  /\ WorkerUnchanged

Alive(b) == worker[b].pc \notin {"none", "exit", "crashed"}

\* ----------------------------------------------------------------- stop
StopUnchanged ==
  UNCHANGED <<ctor, life, singleton, networking, lock, queue_in, queue_out, setters,
              calls, hist, published, nextId, discarded, limits, got>>

\* Line 163.
StopFlag(b) ==
  /\ life[b] = "live"
  /\ stopPc[b] = "idle"
  /\ running' = [running EXCEPT ![b] = FALSE]
  /\ stopPc' = [stopPc EXCEPT ![b] = "set"]
  /\ UNCHANGED <<instance, topics, wake_event, stopped>>
  /\ UNCHANGED <<clearedAt, worker>>
  /\ StopUnchanged

\* Line 164.
StopSet(b) ==
  /\ stopPc[b] = "set"
  /\ wake_event' = [wake_event EXCEPT ![b] = TRUE]
  /\ stopPc' = [stopPc EXCEPT ![b] = "join"]
  /\ UNCHANGED <<instance, running, topics, stopped>>
  /\ UNCHANGED <<clearedAt, worker>>
  /\ StopUnchanged

\* A stop() that does not wait for the worker thread.
StopWithoutJoin(b) ==
  /\ stopPc[b] = "join"
  /\ stopPc' = [stopPc EXCEPT ![b] = "clear"]
  /\ UNCHANGED <<instance, running, topics, wake_event, stopped, clearedAt, ctor, life, singleton,
                 networking, lock, queue_in, queue_out, setters, worker, calls, hist, published,
                 nextId, discarded, limits, got>>

\* A join that gives up when the worker is not in the middle of a dispatch.
StopJoinTimeout(b) ==
  /\ stopPc[b] = "join"
  /\ worker[b].pc \notin {"pat", "cb", "in", "back"}
  /\ stopPc' = [stopPc EXCEPT ![b] = "clear"]
  /\ UNCHANGED <<instance, running, topics, wake_event, stopped, clearedAt, worker>>
  /\ StopUnchanged

\* Lines 165-166: join() without a timeout returns once the thread has ended.
StopJoin(b) ==
  /\ stopPc[b] = "join"
  /\ ~Alive(b)
  /\ stopPc' = [stopPc EXCEPT ![b] = "clear"]
  /\ UNCHANGED <<instance, running, topics, wake_event, stopped>>
  /\ UNCHANGED <<clearedAt, worker>>
  /\ StopUnchanged

\* Line 169, outside the lock: the outer dict is emptied; a dict of callbacks
\* that an iterator holds lives on, out of the registry.
StopClear(b) ==
  /\ stopPc[b] = "clear"
  /\ topics' = [topics EXCEPT ![b] = <<>>]
  /\ worker' = [worker EXCEPT ![b] =
       IF @.pc \in {"cb", "in", "back"} /\ @.kept = <<>>
         THEN [@ EXCEPT !.kept = <<topics[b][worker[b].pat]>>]
         ELSE @]
  /\ stopPc' = [stopPc EXCEPT ![b] = "unset"]
  /\ UNCHANGED <<instance, running, wake_event, stopped>>
  /\ clearedAt' = [clearedAt EXCEPT ![b] = Len(hist)]
  /\ StopUnchanged

\* Line 170, and the return.
StopReturn(b) ==
  /\ stopPc[b] = "unset"
  /\ instance' = 0
  /\ stopPc' = [stopPc EXCEPT ![b] = "idle"]
  /\ stopped' = [stopped EXCEPT ![b] = TRUE]
  /\ UNCHANGED <<running, topics, wake_event>>
  /\ UNCHANGED <<clearedAt, worker>>
  /\ StopUnchanged

\* -------------------------------------------------------- specification
\* What the callers of publish do with the messages of the set msgs.
Publishers(msgs) ==
  \/ \E b \in Brokers, m \in msgs : PublishPut(b, m)
  \/ \E b \in Brokers : PublishSet(b)

\* What the callers of subscribe and unsubscribe do under the ids sids.
Subscribers(sids) ==
  \/ \E b \in Brokers, p \in Patterns, cb \in Callbacks, sid \in sids :
       SubscribeBegin(b, p, cb, sid)
  \/ \E b \in Brokers : SubscribeEnd(b)
  \/ \E b \in Brokers, p \in Patterns, sid \in sids : Unsubscribe(b, p, sid)

\* What the worker threads do.
Workers ==
  \/ \E b \in Brokers : WorkerRun(b)
  \/ \E b \in Brokers : WorkerEmpty(b)
  \/ \E b \in Brokers : WorkerGet(b)
  \/ \E b \in Brokers : WorkerPattern(b)
  \/ \E b \in Brokers : WorkerCallback(b)
  \/ \E b \in Brokers : WorkerReturn(b)
  \/ \E b \in Brokers : WorkerClear(b)
  \/ \E b \in Brokers : WorkerWait(b)

\* What the callers of stop do.
Stops ==
  \/ \E b \in Brokers : StopFlag(b)
  \/ \E b \in Brokers : StopSet(b)
  \/ \E b \in Brokers : StopJoin(b)
  \/ \E b \in Brokers : StopClear(b)
  \/ \E b \in Brokers : StopReturn(b)

\* The state after broker 1 was obtained by MessageBroker(config), with the
\* registry reg and the history h of the subscribe calls that built it, the
\* inbound queue q, and the limits lim on what its callers go on to do.
OneBroker(net, reg, h, q, lim) ==
  /\ instance = 1
  /\ ctor = 0
  /\ life = [b \in Brokers |-> IF b = 1 THEN "live" ELSE "none"]
  /\ singleton = [b \in Brokers |-> b = 1]
  /\ running = [b \in Brokers |-> b = 1]
  /\ networking = [b \in Brokers |-> b = 1 /\ net]
  /\ topics = [b \in Brokers |-> IF b = 1 THEN reg ELSE <<>>]
  /\ lock = [b \in Brokers |-> NoSub]
  /\ queue_in = [b \in Brokers |-> IF b = 1 THEN q ELSE <<>>]
  /\ queue_out = [b \in Brokers |-> <<>>]
  /\ wake_event = [b \in Brokers |-> b = 1 /\ q # <<>>]
  /\ setters = [b \in Brokers |-> 0]
  /\ worker = [b \in Brokers |-> Worker(IF b = 1 THEN "run" ELSE "none")]
  /\ stopPc = [b \in Brokers |-> "idle"]
  /\ stopped = [b \in Brokers |-> FALSE]
  /\ clearedAt = [b \in Brokers |-> -1]
  /\ calls = <<>>
  /\ hist = h
  /\ published = [i \in 1..Len(q) |-> [b |-> 1, msg |-> [topic |-> q[i].topic, data |-> q[i].data,
                                                           origin |-> q[i].origin]]]
  /\ nextId = 1 + Len(q)
  /\ discarded = FALSE
  /\ limits = lim
  /\ got = Returned(1)

\* One broker with networking disabled (the default), used by local
\* publishers and by subscribers while it runs.
InitOne == OneBroker(FALSE, <<>>, <<>>, <<>>, [pub |-> MaxPublish, ops |-> MaxOps])
Dispatch == Publishers(LocalMessages) \/ Subscribers(SubscriberIds) \/ Workers
Spec == InitOne /\ [][Dispatch]_vars

\* One broker, with networking enabled or not, whose callers publish
\* well-formed and malformed messages, with and without an origin.
InitPublish ==
  \E net \in BOOLEAN : OneBroker(net, <<>>, <<>>, <<>>, [pub |-> MaxPublish, ops |-> FewOps])
Publishing == Publishers(Messages) \/ Subscribers(SubscriberIds) \/ Workers
SpecPublish == InitPublish /\ [][Publishing]_vars

\* The strings of length lo to hi over the characters cs.
RECURSIVE Strings(_, _, _)
Strings(cs, lo, hi) ==
  IF hi = 0 THEN {<<>>}
  ELSE LET shorter == Strings(cs, 0, hi - 1)
       IN {s \in shorter \cup {Append(t, c) : t \in shorter, c \in cs} : Len(s) >= lo}
Letters == {"a", "b", "x", "."}

\* One broker after subscribe(p, f, "s1") and publish of a message with the
\* topic t, for every non-empty pattern p of at most MaxLen letters and stars and every
\* topic t of at most MaxLen + 1 letters, and its worker dispatching it.
InitMatch ==
  \E p \in Strings(Letters \cup {"*"}, 1, MaxLen), t \in Strings(Letters, 1, MaxLen + 1) :
    OneBroker(FALSE,
              <<[key |-> p, val |-> <<[key |-> "s1", val |-> "f", live |-> TRUE]>>]>>,
              <<[b |-> 1, pat |-> p, sid |-> "s1", op |-> "sub", cb |-> "f", at |-> 1]>>,
              <<[id |-> 1, topic |-> TopicStr(t), data |-> PyDict(1), origin |-> None]>>,
              [pub |-> 1, ops |-> 1])
SpecMatch == InitMatch /\ [][Workers]_vars

\* Brokers constructed with the default configuration, used by one
\* subscriber and by publishers of one kind of message, and stopped.
Next ==
  \/ NewCheck
  \/ \E b \in Brokers, net \in {FALSE} : NewCreate(b, net)
  \/ \E b \in Brokers, net \in {FALSE} : NewPlain(b, net)
  \/ Publishers({m \in LocalMessages : m.topic.s = <<"a", ".", "b">>})
  \/ Subscribers({"s1"})
  \/ Workers
  \/ Stops
SpecLife == Init /\ [][Next]_vars

\* One broker with a subscriber s2 whose callback returns or never returns,
\* used by publishers and by a subscriber s1, and stopped.  A thread that is
\* inside a call goes on running: the worker thread (its wait on the wake
\* event ends at the latest with the timeout of line 156), a publish between
\* its put and its set, a subscribe that holds the lock, a stop() past its
\* first line.
InitStop ==
  \E cb \in {"f", "hang"}, p \in Patterns :
    OneBroker(FALSE,
              <<[key |-> p, val |-> <<[key |-> "s2", val |-> cb, live |-> TRUE]>>]>>,
              <<[b |-> 1, pat |-> p, sid |-> "s2", op |-> "sub", cb |-> cb, at |-> 1]>>,
              <<>>,
              [pub |-> MaxPublish, ops |-> MaxOps])
Stopping ==
  \/ Publishers({m \in LocalMessages : m.topic.s = <<"a", ".", "b">>})
  \/ Subscribers({"s1"})
  \/ Workers
  \/ Stops
StopGoesOn ==
  \E b \in Brokers : StopSet(b) \/ StopJoin(b) \/ StopClear(b) \/ StopReturn(b)
CallsGoOn ==
  \E b \in Brokers : PublishSet(b) \/ SubscribeEnd(b)
SpecStop ==
  /\ InitStop
  /\ [][Stopping]_vars
  /\ WF_vars(Workers)
  /\ WF_vars(StopGoesOn)
  /\ WF_vars(CallsGoOn)

\* ------------------------------------------------- what the claims speak of
Range(f) == {f[i] : i \in DOMAIN f}
Last(q) == q[Len(q)]

\* The completed subscribe and unsubscribe calls on one (pattern,
\* subscriber_id) of broker b, in order.
KeyHist(b, pat, sid) == SelectSeq(hist, LAMBDA e : e.b = b /\ e.pat = pat /\ e.sid = sid)

\* Message id was published after sid was subscribed under pat, and the
\* subscription has not been replaced or removed since.
Subscribed(b, pat, sid, id) ==
  LET h == KeyHist(b, pat, sid)
  IN h # <<>> /\ Last(h).op = "sub" /\ Last(h).at <= id

\* Message id was published after sid was unsubscribed from pat, and sid has
\* not subscribed to it again.
Unsubscribed(b, pat, sid, id) ==
  LET h == KeyHist(b, pat, sid)
  IN h # <<>> /\ Last(h).op = "unsub" /\ Last(h).at <= id

\* The invocations of the callback of (pat, sid) for message id.
Deliveries(b, pat, sid, id) ==
  {i \in DOMAIN calls : calls[i].b = b /\ calls[i].pat = pat /\ calls[i].sid = sid /\ calls[i].id = id}
Count(b, pat, sid, id) == Cardinality(Deliveries(b, pat, sid, id))

\* Message id is neither queued nor being dispatched.
Handled(id) ==
  LET b == published[id].b
  IN /\ \A i \in DOMAIN queue_in[b] : queue_in[b][i].id # id
     /\ worker[b].msg.id # id

\* No delivery can be missing any more: the message has been dispatched, or
\* the worker thread has ended and dispatches nothing again.
Settled(id) == Handled(id) \/ ~Alive(published[id].b)

\* The matching the specification describes: '*' stands for one or more
\* characters, every other character for itself, from the start of the topic.
RECURSIVE LitMatch(_, _)
LitMatch(p, t) ==
  IF p = <<>> THEN TRUE
  ELSE IF Head(p) = "*"
    THEN \E k \in 1..Len(t) : LitMatch(Tail(p), SubSeq(t, k + 1, Len(t)))
  ELSE t # <<>> /\ Head(p) = Head(t) /\ LitMatch(Tail(p), Tail(t))
HasStar(p) == "*" \in Range(p)
ClaimMatches(p, t) == IF HasStar(p) THEN LitMatch(p, t) ELSE p = t

\* A message the specification calls invalid: its topic is missing, empty or
\* not a string, or its data is absent.
ClaimInvalid(message) ==
  \/ message.topic.kind # "str"
  \/ message.topic.n = 0
  \/ message.data.kind = "none"

\* --------------------------------------------------------------- claims
\* C1: a message accepted on a running broker is delivered, with its data,
\* exactly once to every callback that was subscribed under a matching
\* pattern before the publish and has not been unsubscribed or replaced:
\* never twice, and once by the time the message has been dispatched or the
\* worker has ended.
C1_DeliveredExactlyOnce ==
  \A id \in DOMAIN published, pat \in Patterns, sid \in SubscriberIds :
    LET b == published[id].b
        m == published[id].msg
    IN (running[b] /\ Subscribed(b, pat, sid, id) /\ ClaimMatches(pat, m.topic.s)) =>
         /\ Count(b, pat, sid, id) <= 1
         /\ Settled(id) => Count(b, pat, sid, id) = 1
         /\ \A i \in Deliveries(b, pat, sid, id) :
              calls[i].arg = m.data /\ calls[i].cb = Last(KeyHist(b, pat, sid)).cb

\* C2: publishing a message whose topic is missing, empty or not a string,
\* or whose data is absent, changes neither queue, does not set the wake
\* event and invokes no callback: the call only logs and returns, and every
\* callback invocation is for a message that is not of that kind.
C2_InvalidDiscarded ==
  [][/\ \A b \in Brokers, m \in Messages :
          (ClaimInvalid(m) /\ PublishPut(b, m)) =>
            /\ UNCHANGED <<queue_in, queue_out, wake_event, setters, calls, published>>
            /\ discarded'
     /\ \A i \in DOMAIN calls' : ~ClaimInvalid(published'[calls'[i].id].msg)]_vars

C2_Witness ==
  /\ discarded
  /\ \E s \in Range(topics[1]) : Used(s.val) > 0
  /\ queue_in[1] = <<>> /\ published = <<>> /\ calls = <<>> /\ ~wake_event[1]

\* C3: publish enqueues every message whose topic is a non-empty string and
\* whose data is not None, whatever the data is.
C3_PresentDataAccepted ==
  [][\A b \in Brokers, m \in Messages :
       (~ClaimInvalid(m) /\ PublishPut(b, m)) =>
         /\ Len(queue_in'[b]) = Len(queue_in[b]) + 1
         /\ Last(queue_in'[b]).topic = m.topic /\ Last(queue_in'[b]).data = m.data]_vars

\* C4: a subscription under a pattern without '*' receives a message if and
\* only if the topic is identical to the pattern.
C4_ExactWithoutStar ==
  LET p == topics[1][1].key
      t == published[1].msg.topic.s
  IN (Handled(1) /\ ~HasStar(p)) => (Count(1, p, "s1", 1) = 1 <=> p = t)

\* C5: a subscription under a pattern with '*' receives a message if and
\* only if the topic starts with a string the pattern describes when '*'
\* stands for one or more characters and every other character for itself.
C5_StarAndLiterals ==
  LET p == topics[1][1].key
      t == published[1].msg.topic.s
  IN (Handled(1) /\ HasStar(p)) => (Count(1, p, "s1", 1) = 1 <=> LitMatch(p, t))

\* C6: a callback that raises does not end the dispatch worker of a running
\* broker.
C6_WorkerSurvivesCallbackError ==
  \A i \in DOMAIN calls : (Raises(calls[i].cb) /\ running[calls[i].b]) => Alive(calls[i].b)

\* C7: with two subscriber_ids under one pattern, callbacks that do not
\* raise and every subscribe call made before the first publish, a matching
\* message published while both are subscribed is delivered to both, and one
\* published after the first was unsubscribed is not delivered to the first
\* and is delivered to the second.
C7_UnsubscribeLeavesOther ==
  (/\ \A i \in DOMAIN calls : ~Raises(calls[i].cb)
   /\ \A b \in Brokers : ~lock[b].held
   /\ \A e \in Range(hist) : e.op = "sub" => e.at = 1) =>
    \A id \in DOMAIN published, pat \in Patterns, id1 \in SubscriberIds, id2 \in SubscriberIds :
      LET b == published[id].b
      IN (/\ id1 # id2
          /\ running[b]
          /\ Subscribed(b, pat, id2, id)
          /\ ClaimMatches(pat, published[id].msg.topic.s)) =>
           /\ (Subscribed(b, pat, id1, id) /\ Settled(id)) =>
                (Count(b, pat, id1, id) = 1 /\ Count(b, pat, id2, id) = 1)
           /\ Unsubscribed(b, pat, id1, id) =>
                /\ Count(b, pat, id1, id) = 0
                /\ Settled(id) => Count(b, pat, id2, id) = 1

\* C8: the registry holds at most one callback per (pattern, subscriber_id),
\* and a message is only ever delivered, for that pair, to the callback of
\* the last subscribe call before its publish or of a later one: once a
\* callback has been replaced, no message published afterwards reaches it.
AllowedCallbacks(b, pat, sid, id) ==
  LET h == KeyHist(b, pat, sid)
      before == {i \in DOMAIN h : h[i].at <= id}
      first == IF before = {} THEN 1 ELSE CHOOSE i \in before : \A j \in before : j <= i
  IN {h[i].cb : i \in {j \in DOMAIN h : j >= first /\ h[j].op = "sub"}}

C8_OnlyLatestCallback ==
  /\ \A b \in Brokers : \A s \in Range(topics[b]) : \A i \in DOMAIN s.val, j \in DOMAIN s.val :
       (i # j /\ s.val[i].live /\ s.val[j].live) => s.val[i].key # s.val[j].key
  /\ \A i \in DOMAIN calls :
       calls[i].cb \in AllowedCallbacks(calls[i].b, calls[i].pat, calls[i].sid, calls[i].id)

C8_Witness ==
  \E i \in DOMAIN calls :
    LET h == KeyHist(calls[i].b, calls[i].pat, calls[i].sid)
    IN /\ Len(h) >= 2
       /\ h[Len(h)].op = "sub" /\ h[Len(h) - 1].op = "sub"
       /\ h[Len(h)].cb # h[Len(h) - 1].cb
       /\ h[Len(h)].at <= calls[i].id
       /\ calls[i].cb = h[Len(h)].cb

\* C9: one subscriber receives the messages of a broker in the order in
\* which publish accepted them.
C9_PublishOrder ==
  \A i \in DOMAIN calls, j \in DOMAIN calls :
    (/\ i < j
     /\ calls[i].b = calls[j].b /\ calls[i].pat = calls[j].pat /\ calls[i].sid = calls[j].sid)
      => calls[i].id <= calls[j].id

C9_Witness ==
  \E i \in DOMAIN calls, j \in DOMAIN calls :
    /\ i < j
    /\ calls[i].b = calls[j].b /\ calls[i].pat = calls[j].pat /\ calls[i].sid = calls[j].sid
    /\ calls[i].id = 1 /\ calls[j].id = 2

\* C10: when stop() returns, the worker thread of its broker has ended, the
\* singleton reference is None, and the registry holds nothing that was
\* subscribed before stop() cleared it; a stopped broker is never the
\* singleton again and its worker stays ended; and the singleton reference
\* only ever changes to a newly constructed broker with an empty registry.
StopReturns(b) == stopPc[b] = "unset" /\ stopPc'[b] = "idle"
C10_AfterStop ==
  [][/\ \A b \in Brokers :
          /\ StopReturns(b) =>
               /\ ~Alive(b)'
               /\ instance' = 0
               /\ \A s \in Range(topics'[b]) : \A e \in Range(s.val) :
                    e.live => \E i \in DOMAIN hist :
                                /\ i > clearedAt[b]
                                /\ hist[i].b = b /\ hist[i].op = "sub"
                                /\ hist[i].pat = s.key /\ hist[i].sid = e.key
          /\ stopped'[b] => (~Alive(b)' /\ instance' # b)
     /\ (instance' # instance /\ instance' # 0) =>
          (life[instance'] = "none" /\ life'[instance'] = "live" /\ topics'[instance'] = <<>>)]_vars

\* C10 as stated: when stop() returns, the registry of its broker is empty.
C10_RegistryEmptyAtReturn ==
  [][\A b \in Brokers : StopReturns(b) => (~Alive(b)' /\ instance' = 0 /\ topics'[b] = <<>>)]_vars

C10_Witness ==
  /\ singleton[1] /\ stopped[1] /\ ~Alive(1) /\ topics[1] = <<>>
  /\ \E i \in DOMAIN hist : hist[i].b = 1 /\ hist[i].op = "sub"
  /\ instance = 2 /\ life[2] = "live" /\ singleton[2] /\ topics[2] = <<>>

\* One broker with the subscriber s1, whose callback calls publish,
\* subscribe or unsubscribe on the broker, and after it the subscriber s2
\* with the callback f, both under one pattern; nothing but the callback
\* changes the registry.
OtherPatterns == {<<"x", ".", "*">>}
InitReentrant ==
  \E cb \in {"pub", "sub", "unsub"}, p \in Patterns :
    OneBroker(FALSE,
              <<[key |-> p, val |-> <<[key |-> "s1", val |-> cb, live |-> TRUE],
                                      [key |-> "s2", val |-> "f", live |-> TRUE]>>]>>,
              <<[b |-> 1, pat |-> p, sid |-> "s1", op |-> "sub", cb |-> cb, at |-> 1],
                [b |-> 1, pat |-> p, sid |-> "s2", op |-> "sub", cb |-> "f", at |-> 1]>>,
              <<>>,
              [pub |-> MaxPublish, ops |-> MaxOps])
Reentrants ==
  \/ \E b \in Brokers : CallbackPublish(b)
  \/ \E b \in Brokers, p \in Patterns \cup OtherPatterns, sid \in SubscriberIds :
       CallbackSubscribe(b, p, sid)
  \/ \E b \in Brokers : CallbackUnsubscribe(b)
Reentering ==
  \/ Publishers({m \in LocalMessages : m.topic.s = <<"a", ".", "b">>})
  \/ Workers
  \/ Reentrants
SpecReentrant == InitReentrant /\ [][Reentering]_vars

\* The worker of b is inside a callback that never returns.
Hung(b) == worker[b].pc = "in" /\ Hangs(calls[InCall(b)].cb)

C12_StopCompletes ==
  \A b \in Brokers : (stopPc[b] = "set") ~> (stopPc[b] = "idle")

\* C13: at most one callback invocation of a broker is in progress at any
\* time, and the thread inside it is the broker's worker.
InProgress(b) == {i \in DOMAIN calls : calls[i].b = b /\ ~calls[i].done}
C13_CallbacksSerial ==
  \A b \in Brokers :
    /\ Cardinality(InProgress(b)) <= 1
    /\ InProgress(b) # {} => worker[b].pc \in {"in", "back"}

C13_Witness ==
  /\ InProgress(1) # {} /\ ~Hung(1)
  /\ lock[1].held
  /\ stopPc[1] = "join"
  /\ Len(hist) > 1

\* C14: what MessageBroker() returns in singleton mode has its running flag
\* set when it is returned.
C14_NeverStoppedBroker == got.b # 0 => got.running

\* C15: at most one broker constructed in singleton mode has a live worker.
RunningSingletons == {b \in Brokers : singleton[b] /\ Alive(b)}
C15_OneRunningSingleton == Cardinality(RunningSingletons) <= 1

\* C20: once stop() has returned on a broker, no callback of that broker is
\* invoked and none is in progress, whatever is published to it or
\* subscribed on it afterwards.
C20_NoCallbackAfterStop ==
  [][\A b \in Brokers :
       stopped[b] =>
         /\ \A i \in DOMAIN calls' : i > Len(calls) => calls'[i].b # b
         /\ InProgress(b) = {}]_vars

C20_Witness ==
  /\ stopped[1] /\ stopPc[1] = "idle"
  /\ queue_in[1] # <<>>
  /\ \E s \in Range(topics[1]) : Matches(s.key, queue_in[1][1].topic.s) /\ Used(s.val) > 0
  /\ worker[1].pc = "exit"

\* C16: a publish that accepts a message puts it at the end of the inbound
\* queue, and at the end of the outbound queue when the message has no origin
\* and networking is enabled, and leaves the outbound queue alone otherwise;
\* so the outbound queue never holds a message with an origin, holds nothing
\* when networking is disabled, and holds no message twice.
C16_RelayOnlyLocal ==
  [][/\ \A b \in Brokers, m \in Messages :
          (PublishPut(b, m) /\ published' # published) =>
            LET put == [id |-> nextId, topic |-> m.topic, data |-> m.data, origin |-> m.origin]
            IN /\ queue_in'[b] = Append(queue_in[b], put)
               /\ queue_out'[b] = IF m.origin = None /\ networking[b]
                                    THEN Append(queue_out[b], put)
                                    ELSE queue_out[b]
     /\ \A b \in Brokers : \A i \in DOMAIN queue_out'[b] :
          /\ queue_out'[b][i].origin = None
          /\ networking[b]
          /\ \A j \in DOMAIN queue_out'[b] : i # j => queue_out'[b][i].id # queue_out'[b][j].id
     /\ \A b \in Brokers : \E m \in Messages : PublishPut(b, m) \/ queue_out'[b] = queue_out[b]]_vars

C16_Witness ==
  /\ networking[1]
  /\ Len(published) = 2
  /\ published[1].msg.origin # None /\ published[2].msg.origin = None
  /\ Len(queue_out[1]) = 1 /\ queue_out[1][1].id = 2
  /\ queue_in[1] = <<>>

\* C17: while the worker is at a step of its iteration over the patterns or
\* over a pattern's callbacks, the registry does not change.
C17_RegistryStableDuringDispatch ==
  [][\A b \in Brokers : worker[b].pc \in {"pat", "cb"} => topics'[b] = topics[b]]_vars

\* C18: when the worker is blocked on the wake event, the inbound queue is
\* not empty and every publish call has completed, the wake event is set.
C18_NoLostWakeup ==
  \A b \in Brokers :
    (worker[b].pc = "wait" /\ queue_in[b] # <<>> /\ setters[b] = 0) => wake_event[b]

\* C19: after a callback has called publish, subscribe or unsubscribe on its
\* broker and returned, the worker is alive, and once the message it was
\* invoked for has been dispatched, the subscriber after it has received that
\* message; a message the callback published is delivered once dispatched.
C19_CallbackMayCallBroker ==
  \A i \in DOMAIN calls :
    (Reentrant(calls[i].cb) /\ calls[i].done) =>
      /\ Alive(calls[i].b)
      /\ Handled(calls[i].id) => Count(calls[i].b, calls[i].pat, "s2", calls[i].id) = 1
====
